---- MODULE Spec2Model ----
(***************************************************************************)
(* The transcript editing hook useTranscription (optimistic segment        *)
(* updates with an undo/redo log) together with the debounced save of      *)
(* TranscriptSegment, which is the caller that delivers updateSegmentText  *)
(* through a callback captured at an earlier render.                       *)
(*                                                                         *)
(* One action is one JavaScript task: an event handler, a timer callback   *)
(* or the continuation of an awaited request.  The state updates a task    *)
(* queues are applied together, in order, each updater on the value left   *)
(* by the one before it.  A useCallback function reads `transcript` and    *)
(* `historyIndex` from the render that created it; that pair is the        *)
(* closure `cl` below.  Handlers invoked from the current render use       *)
(* CurrentClosure; a debounce timer keeps the closure of the render in     *)
(* which it was armed.  At most one segment's textarea is open at a time   *)
(* (it holds the focus).  The timestamp field of a history entry is not    *)
(* read anywhere and is left out.                                          *)
(***************************************************************************)
EXTENDS Integers, Sequences, FiniteSets, Bags, TLC

MAX_HISTORY == 50

\* ---- bounds of the model
MaxCalls == 2        \* edits delivered or typed, from the fresh hook
MaxReplays == 2      \* undo and redo calls, from the fresh hook
MaxLoads == 1        \* loadTranscript calls, from the fresh hook
MaxCapCalls == 1     \* the same three, from a log at the capacity bound
MaxCapReplays == 2
MaxInflight == 1     \* updateSegment requests awaiting a response
MaxCapInflight == 1  \* the same, from a log at the capacity bound
MaxRaceCalls == 2    \* edits, undo/redo calls and requests awaiting a
MaxRaceReplays == 1  \* response, when requests overlap
MaxRaceInflight == 2
MaxTripCalls == 3    \* keystrokes and blurs in a series of edits
MaxTripReplays == 4  \* undo and redo calls after a series of edits
MaxTripInflight == 1 \* updateSegment requests awaiting a response there
MaxRenames == 2      \* renameSpeaker calls
MaxTicks == 3        \* ticks of the status poll interval
MaxTime == 4         \* duration of the primary audio, in playback steps
ClipLength == 2      \* duration of the regenerated clip of segment s1
MaxKeys == 3         \* keystrokes in one segment editor
MaxStrLen == 4       \* length of the strings given to computeWordDiff

Segs == {"s1", "s2"}
Texts == {"a", "b"}
LoadedText == "a"
NoError == "null"
SaveFailed == "Failed to save edit"
LoadFailed == "Failed to load transcript"

VARIABLES
    transcript,     \* [loaded, segments]: useState<Transcript | null>
    loading,        \* useState(false)
    error,          \* useState<string | null>
    editHistory,    \* useState<EditHistoryItem[]>
    historyIndex,   \* useState(-1)
    server,         \* the rows the backend holds for the segments
    saveStatus,     \* TranscriptEditor: useState<saved|saving|error|null>
    expiries,       \* pending setTimeout(() => setSaveStatus(null), 2000)
    slots,          \* updateSegment requests that may await a response at
                    \* once (a bound of the model, fixed by the initial state)
    requests,       \* bag of updateSegment calls awaiting their response;
                    \* revert is the segment.text the call captured, and
                    \* textAtCall (a history field) the text then in state
    loadInFlight,   \* a getTranscript call awaits its response
    debounce,       \* per segment editor: the pending debounce timer
    editing,        \* the segment whose textarea is shown and focused
    calls,          \* edits that may still be delivered or typed
    loads,          \* loadTranscript calls that may still be made
    replays,        \* undo and redo calls that may still be made
    lastOp,         \* history variable: the task that ran last
    ur,             \* history variable: progress of an edit/undo/redo
                    \* triple; a rejection after the undo abandons it
    trip,           \* history variable: progress of n recorded edits, n
                    \* undos and n redos, with the texts before the first
                    \* edit and after the last
    speakerLabels,  \* transcript.speaker_labels: label id -> label
    speakerNames,   \* useState<Record<string, string>>, by speaker_id
    renameRequests, \* bag of updateSpeakerLabel calls awaiting a response
    renames,        \* renameSpeaker calls that may still be made
    lastRename,     \* history variable: the rename task that ran last
    lastRenameOf,   \* history variable: per label, the latest renameSpeaker
                    \* call and whether its request was rejected
    state,          \* useAudioUpload: useState<UploadState>
    progress,       \* useAudioUpload: useState(0)
    uploadError,    \* useAudioUpload: error, useState<string | null>
    pollInterval,   \* the interval transcribe() set: none, active, cleared
    clearCalls,     \* history variable: clearInterval(pollInterval) calls
    statusRequests, \* bag of getTranscriptionStatus calls in flight; res is
                    \* what the backend read, "none" until it has
    job,            \* the backend's status of the transcription
    ticks,          \* interval ticks that may still happen
    lastPoll,       \* history variable: the upload task that ran last
    mainPaused,     \* audioRef.current.paused
    mainTime,       \* audioRef.current.currentTime
    ovPaused,       \* overrideAudioRef.current.paused
    ovTime,         \* overrideAudioRef.current.currentTime
    ovPending,      \* the promise of override.play() is not settled
    playingOverride,   \* playingOverrideRef.current
    overrideSegment,   \* overrideSegmentRef.current (a segment or none)
    useRegenerated,    \* useState(true)
    currentTime,       \* useState(0)
    lastAudio,      \* history variable: the playback task that ran last
    original,       \* computeWordDiff: the argument original
    edited,         \* computeWordDiff: the argument edited
    diffParts,      \* computeWordDiff: the DiffPart[] returned
    diffDone,       \* computeWordDiff has returned
    textProp,       \* TranscriptSegment: the prop text
    isEditing,      \* TranscriptSegment: useState(false)
    textarea,       \* TranscriptSegment: editedText, useState(text)
    debounceRef,    \* TranscriptSegment: debounceRef.current (a timer id)
    timers,         \* the timeouts of handleChange that are pending
    keys,           \* keystrokes made; a keystroke's number is also the
                    \* id of the timer it sets
    editedKey,      \* history variable: the keystroke textarea holds
    deliveries,     \* history variable: the onTextChange calls made
    discarded,      \* history variable: keystrokes an Escape discarded
    segOp           \* history variable: the editor task that ran last

renameVars == <<speakerLabels, speakerNames, renameRequests, renames,
                lastRename, lastRenameOf>>

pollVars == <<state, progress, uploadError, pollInterval, clearCalls,
              statusRequests, job, ticks, lastPoll>>

editVars == <<transcript, loading, error, editHistory, historyIndex, server,
              slots, saveStatus, expiries,
              requests, loadInFlight, debounce, editing, calls, loads,
              replays, lastOp, ur, trip>>

audioVars == <<mainPaused, mainTime, ovPaused, ovTime, ovPending,
               playingOverride, overrideSegment, useRegenerated, currentTime,
               lastAudio>>

diffVars == <<original, edited, diffParts, diffDone>>

segVars == <<textProp, isEditing, textarea, debounceRef, timers, keys,
             editedKey, deliveries, discarded, segOp>>

\* the state of the components a segment edit does not touch
nonEditVars == <<renameVars, pollVars, audioVars, diffVars,
      segVars>>

\* the state outside useTranscription
nonHookVars == <<pollVars, audioVars, diffVars,
      segVars>>

\* the state outside useAudioUpload
nonPollVars == <<editVars, renameVars, audioVars, diffVars,
      segVars>>

\* the state outside the editor's playback
nonAudioVars == <<editVars, renameVars, pollVars, diffVars,
      segVars>>

\* the state computeWordDiff does not touch
nonDiffVars == <<editVars, renameVars, pollVars, audioVars, segVars>>

\* the state outside one TranscriptSegment
nonSegVars == <<editVars, renameVars, pollVars, audioVars, diffVars>>

vars == <<editVars, renameVars, pollVars, audioVars, diffVars,
      segVars>>

Min(a, b) == IF a < b THEN a ELSE b
Max(a, b) == IF a > b THEN a ELSE b

\* Array.prototype.slice(0, end)
Slice(arr, end) ==
    LET e == IF end < 0 THEN Max(Len(arr) + end, 0) ELSE Min(end, Len(arr))
    IN  SubSeq(arr, 1, e)

NullTranscript ==
    [loaded |-> FALSE,
     segments |-> [s \in Segs |-> [text |-> "", is_edited |-> FALSE]]]

CurrentClosure == [transcript |-> transcript, historyIndex |-> historyIndex]

\* The part of the current render's closure that a call of
\* updateSegmentText(segmentId, _) can read: whether transcript is null,
\* the text of the segment it finds, and historyIndex.
ClosureFor(segmentId) ==
    [transcript |->
        [loaded |-> transcript.loaded,
         segments |-> [s \in Segs |->
             IF s = segmentId
             THEN [text |-> transcript.segments[s].text, is_edited |-> FALSE]
             ELSE [text |-> "", is_edited |-> FALSE]]],
     historyIndex |-> historyIndex]

NoTimer == [armed |-> FALSE, newText |-> "", text |-> "",
            cl |-> [transcript |-> NullTranscript, historyIndex |-> -1]]

NotEditing == "none"

saveVars == <<saveStatus, expiries>>
NoStatus == "null"

NoUr == [phase |-> "none", seg |-> "", text |-> "", idx |-> -1]

\* called: updateSegmentText was invoked; eff: it passed its early returns;
\* rec: it recorded a history entry; stale: it ran from an earlier render
Op(op, seg, text, called, eff, rec, stale) ==
    [op |-> op, seg |-> seg, text |-> text, called |-> called, eff |-> eff,
     rec |-> rec, stale |-> stale]

\* ---- updateSegmentText, as seen from the closure cl

\* lines 77-81: the two early returns
Effective(cl, segmentId, text) ==
    /\ cl.transcript.loaded
    /\ segmentId \in Segs
    /\ cl.transcript.segments[segmentId].text # text

HistoryItem(cl, segmentId, text) ==
    [segmentId |-> segmentId,
     previousText |-> cl.transcript.segments[segmentId].text,
     newText |-> text]

\* An updater that never evicts.
PushHistoryNoShift(prev, cl, historyItem) ==
    Append(Slice(prev, cl.historyIndex + 1), historyItem)

\* lines 92-103: the updater handed to setEditHistory
PushHistory(prev, cl, historyItem) ==
    LET newHistory == Append(Slice(prev, cl.historyIndex + 1), historyItem)
    IN  IF Len(newHistory) > MAX_HISTORY THEN Tail(newHistory) ELSE newHistory

\* line 104: the updater handed to setHistoryIndex
BumpIndex(prev) == Min(prev + 1, MAX_HISTORY - 1)

\* A hook whose history check ignores the re-entrancy flag.
RecordsAlways(isUndoRedo) == TRUE

\* line 84: history is recorded unless isUndoRedo.current is set
Records(isUndoRedo) == ~isUndoRedo

\* An updater that leaves the text to the backend's response.
OptimisticTextDeferred(prev, segmentId, text) == prev

\* lines 108-116: the optimistic updater handed to setTranscript
OptimisticText(prev, segmentId, text) ==
    IF ~prev.loaded THEN prev
    ELSE [prev EXCEPT !.segments[segmentId] =
                          [text |-> text, is_edited |-> TRUE]]

\* A catch that leaves the optimistic text in place.
RevertTextSkipped(prev, segmentId, revert) == prev

\* lines 123-131: the reverting updater handed to setTranscript
RevertText(prev, segmentId, revert) ==
    IF ~prev.loaded \/ segmentId \notin Segs THEN prev
    ELSE [prev EXCEPT !.segments[segmentId].text = revert]

\* The synchronous part of updateSegmentText(segmentId, text) run from
\* closure cl with isUndoRedo.current = isUndoRedo, followed by the
\* caller's own setHistoryIndex(prev => prev + delta).
UpdateSegmentText(cl, segmentId, text, isUndoRedo, delta) ==
    IF Effective(cl, segmentId, text)
    THEN /\ BagCardinality(requests) < slots
         /\ editHistory' =
                IF Records(isUndoRedo)
                THEN PushHistory(editHistory, cl,
                                 HistoryItem(cl, segmentId, text))
                ELSE editHistory
         /\ historyIndex' =
                (IF Records(isUndoRedo) THEN BumpIndex(historyIndex)
                 ELSE historyIndex) + delta
         /\ transcript' = OptimisticText(transcript, segmentId, text)
         /\ requests' = requests (+) SetToBag({
                [segmentId |-> segmentId, text |-> text,
                 revert |-> cl.transcript.segments[segmentId].text,
                 textAtCall |-> transcript.segments[segmentId].text,
                 indicator |-> ~isUndoRedo]})
    ELSE /\ editHistory' = editHistory
         /\ historyIndex' = historyIndex + delta
         /\ transcript' = transcript
         /\ requests' = requests

\* TranscriptEditor.handleSegmentTextChange around a call that was made
\* (called) and passed the early returns (eff): 'saving' is set; a call
\* that returned early has resolved its promise, whose then sets 'saved'
\* and starts the 2000 ms timeout.
SaveStarted(called, eff) ==
    IF ~called THEN UNCHANGED saveVars
    ELSE IF eff THEN saveStatus' = "saving" /\ UNCHANGED expiries
    ELSE saveStatus' = "saved" /\ expiries' = expiries + 1

\* The promise of updateSegmentText settles after the response to request
\* r: it resolves also when the update failed, because the catch of lines
\* 121-133 does not rethrow; the then of handleSegmentTextChange runs if
\* the call came from it (indicator).
SaveSettled(r, failed) ==
    IF ~r.indicator THEN UNCHANGED saveVars
    ELSE saveStatus' = "saved" /\ expiries' = expiries + 1

\* no series of edits, undos and redos is followed
NoTrip == [phase |-> "off", n |-> 0, k |-> 0,
           first |-> [s \in Segs |-> ""], last |-> [s \in Segs |-> ""]]

\* the texts in memory
TextsNow == [s \in Segs |-> transcript.segments[s].text]

\* updateSegmentText was called outside undo/redo; rec: it recorded a
\* history entry.  A recorded edit after the first undo ends the series.
TripEdit(rec) ==
    trip' = IF trip.phase = "off" \/ ~rec THEN trip
            ELSE IF trip.phase = "edits" THEN [trip EXCEPT !.n = trip.n + 1]
            ELSE [trip EXCEPT !.phase = "void"]

\* undo() was called: the first of the n undos notes the texts the edits
\* left; an undo beyond the n-th or after a redo ends the series.
TripUndo ==
    trip' = IF trip.phase = "off" THEN trip
            ELSE IF trip.phase = "edits" /\ trip.n > 0
            THEN [trip EXCEPT !.phase = "undos", !.k = 1, !.last = TextsNow]
            ELSE IF trip.phase = "undos" /\ trip.k < trip.n
            THEN [trip EXCEPT !.k = trip.k + 1]
            ELSE [trip EXCEPT !.phase = "void"]

\* redo() was called: the n redos follow the n undos
TripRedo ==
    trip' = IF trip.phase = "off" THEN trip
            ELSE IF trip.phase = "undos" /\ trip.k = trip.n
            THEN [trip EXCEPT !.phase = "redos", !.k = 1]
            ELSE IF trip.phase = "redos" /\ trip.k < trip.n
            THEN [trip EXCEPT !.k = trip.k + 1]
            ELSE [trip EXCEPT !.phase = "void"]

\* lines 200-201
canUndo == historyIndex >= 0
canRedo == historyIndex < Len(editHistory) - 1

IsStale(cl, segmentId) == cl # ClosureFor(segmentId)

\* ---- speaker labels

Labels == {"l1", "l2"}
Names == {"X", "Y"}
NoName == "null"
RenameFailed == "Failed to rename speaker"

\* the speaker_id of a label; each speaker has one label
SpeakerOf(labelId) == IF labelId = "l1" THEN "0" ELSE "1"
SpeakerIds == {SpeakerOf(l) : l \in Labels}

\* `Speaker ${speaker_id}`
DefaultName(speakerId) ==
    IF speakerId = "0" THEN "Speaker 0" ELSE "Speaker 1"

\* label.custom_name || `Speaker ${label.speaker_id}`
NameOfLabel(label) ==
    IF label.custom_name \in {NoName, ""}
    THEN DefaultName(label.speaker_id) ELSE label.custom_name

\* lines 51-59: the effect that rebuilds the map from the labels
BuildNames(labels) ==
    [sp \in SpeakerIds |->
        NameOfLabel(labels[CHOOSE l \in Labels : SpeakerOf(l) = sp])]

\* speakerNames[speakerId] || `Speaker ${speakerId}`
NameShown(names, speakerId) ==
    IF names[speakerId] \in {"undefined", ""}
    THEN DefaultName(speakerId) ELSE names[speakerId]

\* lines 196-198
getSpeakerName(speakerId) == NameShown(speakerNames, speakerId)

RenameOp(op, labelId, name) == [op |-> op, labelId |-> labelId, name |-> name]

\* no renameSpeaker call was made for the label
NoRename == [seq |-> 0, name |-> NoName, prior |-> NoName, failed |-> FALSE]

\* the labels and names before any transcript is loaded
RenameIdle ==
    /\ speakerLabels = [l \in Labels |->
           [speaker_id |-> SpeakerOf(l), custom_name |-> NoName]]
    /\ speakerNames = [sp \in SpeakerIds |-> "undefined"]
    /\ renameRequests = EmptyBag
    /\ renames = 0
    /\ lastRename = RenameOp("init", "", "")
    /\ lastRenameOf = [l \in Labels |-> NoRename]

\* useAudioUpload as constructed (lines 28-32)
PollIdle ==
    /\ state = "idle"
    /\ progress = 0
    /\ uploadError = NoError
    /\ pollInterval = "none"
    /\ clearCalls = 0
    /\ statusRequests = EmptyBag
    /\ job = "pending"
    /\ ticks = 0
    /\ lastPoll = [op |-> "init", status |-> ""]

NoSegment == "none"

\* the editor's playback state as constructed (lines 69-76), both audio
\* elements paused at position 0
AudioIdle ==
    /\ mainPaused = TRUE
    /\ mainTime = 0
    /\ ovPaused = TRUE
    /\ ovTime = 0
    /\ ovPending = FALSE
    /\ playingOverride = FALSE
    /\ overrideSegment = NoSegment
    /\ useRegenerated = TRUE
    /\ currentTime = 0
    /\ lastAudio = "init"

\* no diff has been computed
DiffIdle ==
    /\ original = <<>>
    /\ edited = <<>>
    /\ diffParts = <<>>
    /\ diffDone = FALSE

\* a segment editor as mounted: not editing, no keystroke yet
SegIdle ==
    /\ textProp = LoadedText
    /\ isEditing = FALSE
    /\ textarea = LoadedText
    /\ debounceRef = 0
    /\ timers = {}
    /\ keys = 0
    /\ editedKey = 0
    /\ deliveries = <<>>
    /\ discarded = {}
    /\ segOp = "init"

NonEditIdle == RenameIdle /\ PollIdle /\ AudioIdle /\ DiffIdle /\ SegIdle

\* ---- the hook's operations

Init ==
    /\ transcript = NullTranscript
    /\ loading = FALSE
    /\ error = NoError
    /\ editHistory = <<>>
    /\ historyIndex = -1
    /\ server = [s \in Segs |-> [text |-> LoadedText, is_edited |-> FALSE]]
    /\ requests = EmptyBag
    /\ loadInFlight = FALSE
    /\ debounce = [s \in Segs |-> NoTimer]
    /\ editing = NotEditing
    /\ calls = MaxCalls
    /\ loads = MaxLoads
    /\ replays = MaxReplays
    /\ slots = MaxInflight
    /\ saveStatus = NoStatus
    /\ expiries = 0
    /\ lastOp = Op("init", "", "", FALSE, FALSE, FALSE, FALSE)
    /\ ur = NoUr
    /\ trip = NoTrip
    /\ NonEditIdle

\* loadTranscript(id) up to its await
LoadTranscript ==
    /\ UNCHANGED nonEditVars
    /\ UNCHANGED slots
    /\ UNCHANGED trip
    /\ UNCHANGED saveVars
    /\ loads > 0
    /\ ~loadInFlight
    /\ loading' = TRUE
    /\ error' = NoError
    /\ loadInFlight' = TRUE
    /\ loads' = loads - 1
    /\ editing' = NotEditing
    /\ lastOp' = Op("load", "", "", FALSE, FALSE, FALSE, FALSE)
    /\ ur' = NoUr
    /\ UNCHANGED <<transcript, editHistory, historyIndex, server, requests,
                   debounce, calls, replays>>

\* getTranscript resolved: lines 66-68, then finally
LoadResolved ==
    /\ UNCHANGED nonEditVars
    /\ UNCHANGED slots
    /\ UNCHANGED trip
    /\ UNCHANGED saveVars
    /\ loadInFlight
    /\ transcript' = [loaded |-> TRUE, segments |-> server]
    /\ editHistory' = <<>>
    /\ historyIndex' = -1
    /\ loading' = FALSE
    /\ loadInFlight' = FALSE
    /\ lastOp' = Op("loadOk", "", "", FALSE, FALSE, FALSE, FALSE)
    /\ ur' = NoUr
    /\ UNCHANGED <<error, server, requests, debounce, editing, calls, loads,
                   replays>>

\* getTranscript rejected: the catch, then finally
LoadRejected ==
    /\ UNCHANGED nonEditVars
    /\ UNCHANGED slots
    /\ UNCHANGED trip
    /\ UNCHANGED saveVars
    /\ loadInFlight
    /\ error' = LoadFailed
    /\ loading' = FALSE
    /\ loadInFlight' = FALSE
    /\ editing' = NotEditing
    /\ lastOp' = Op("loadFail", "", "", FALSE, FALSE, FALSE, FALSE)
    /\ ur' = NoUr
    /\ UNCHANGED <<transcript, editHistory, historyIndex, server, requests,
                   debounce, calls, loads, replays>>

\* The segment editors are rendered only in the transcript view, which
\* TranscriptEditor replaces by a spinner while loading and by an error
\* panel while error is set; an open textarea is taken down with them,
\* its pending timer is not.
EditorShown == transcript.loaded /\ ~loading /\ error = NoError

\* TranscriptSegment.handleTextClick: the segment's textarea is shown and
\* takes the focus; no other textarea is open (it would have lost the focus
\* and run its handleBlur first).
HandleTextClick(segmentId) ==
    /\ UNCHANGED nonEditVars
    /\ UNCHANGED slots
    /\ UNCHANGED trip
    /\ UNCHANGED saveVars
    /\ EditorShown
    /\ editing = NotEditing
    /\ editing' = segmentId
    /\ lastOp' = Op("click", segmentId, "", FALSE, FALSE, FALSE, FALSE)
    /\ ur' = NoUr
    /\ UNCHANGED <<transcript, loading, error, editHistory, historyIndex,
                   server, requests, loadInFlight, debounce, calls, loads,
                   replays>>

\* TranscriptSegment.handleBlur with editedText in the textarea: the
\* pending timer is cleared and, if the text differs from the text prop,
\* delivered at once through onTextChange of the current render
\* (handleSegmentTextChange -> updateSegmentText).
HandleBlur(segmentId, editedText) ==
    LET called == editedText # transcript.segments[segmentId].text
        eff == called /\ Effective(CurrentClosure, segmentId, editedText)
    IN  /\ calls > 0
        /\ UNCHANGED nonEditVars
        /\ UNCHANGED slots
        /\ TripEdit(eff)
        /\ SaveStarted(called, eff)
        /\ EditorShown
        /\ editing = segmentId
        /\ editing' = NotEditing
        /\ debounce' = [debounce EXCEPT ![segmentId] = NoTimer]
        /\ IF called
           THEN UpdateSegmentText(CurrentClosure, segmentId, editedText,
                                  FALSE, 0)
           ELSE UNCHANGED <<editHistory, historyIndex, transcript, requests>>
        /\ calls' = calls - 1
        /\ lastOp' = Op("blur", segmentId, editedText, called, eff, eff,
                        FALSE)
        /\ ur' = IF eff
                 THEN [phase |-> "edited", seg |-> segmentId, text |-> "",
                       idx |-> -1]
                 ELSE NoUr
        /\ UNCHANGED <<loading, error, server, loadInFlight, loads, replays>>

\* TranscriptSegment.handleChange: a keystroke leaving newText in the
\* textarea re-arms the segment's timer with the callbacks of this render.
\* The segment editors exist only while the transcript view is rendered.
HandleChange(segmentId, newText) ==
    /\ UNCHANGED nonEditVars
    /\ UNCHANGED slots
    /\ UNCHANGED trip
    /\ UNCHANGED saveVars
    /\ calls > 0
    /\ EditorShown
    /\ editing = segmentId
    /\ debounce' = [debounce EXCEPT ![segmentId] =
           [armed |-> TRUE, newText |-> newText,
            text |-> transcript.segments[segmentId].text,
            cl |-> ClosureFor(segmentId)]]
    /\ calls' = calls - 1
    /\ lastOp' = Op("arm", segmentId, newText, FALSE, FALSE, FALSE, FALSE)
    /\ ur' = NoUr
    /\ UNCHANGED <<transcript, loading, error, editHistory, historyIndex,
                   server, requests, loadInFlight, editing, loads, replays>>

\* TranscriptSegment.handleKeyDown with Escape: the textarea is taken down;
\* the handler does not touch the pending timer.
HandleKeyDown(segmentId) ==
    /\ UNCHANGED nonEditVars
    /\ UNCHANGED slots
    /\ UNCHANGED trip
    /\ UNCHANGED saveVars
    /\ EditorShown
    /\ editing = segmentId
    /\ editing' = NotEditing
    /\ lastOp' = Op("escape", segmentId, "", FALSE, FALSE, FALSE, FALSE)
    /\ ur' = NoUr
    /\ UNCHANGED <<transcript, loading, error, editHistory, historyIndex,
                   server, requests, loadInFlight, debounce, calls, loads,
                   replays>>

\* The debounce timer fires: onTextChange(newText) of the arming render,
\* that is handleSegmentTextChange -> updateSegmentText of that render.
DebounceFires(segmentId) ==
    LET t == debounce[segmentId]
        delivered == t.newText # t.text
        eff == delivered /\ Effective(t.cl, segmentId, t.newText)
    IN  /\ t.armed
        /\ UNCHANGED nonEditVars
        /\ UNCHANGED slots
        /\ TripEdit(eff)
        /\ SaveStarted(delivered, eff)
        /\ IF delivered
           THEN UpdateSegmentText(t.cl, segmentId, t.newText, FALSE, 0)
           ELSE UNCHANGED <<editHistory, historyIndex, transcript, requests>>
        /\ debounce' = [debounce EXCEPT ![segmentId] = NoTimer]
        /\ lastOp' = Op("fire", segmentId, t.newText, delivered, eff, eff,
                        IsStale(t.cl, segmentId))
        /\ ur' = IF eff
                 THEN [phase |-> "edited", seg |-> segmentId, text |-> "",
                       idx |-> -1]
                 ELSE NoUr
        /\ UNCHANGED <<loading, error, server, loadInFlight, editing, calls,
                       loads, replays>>

\* lines 171-179
Undo ==
    /\ UNCHANGED nonEditVars
    /\ UNCHANGED slots
    /\ TripUndo
    /\ UNCHANGED saveVars
    /\ replays > 0
    /\ replays' = replays - 1
    /\ IF historyIndex < 0 \/ historyIndex >= Len(editHistory)
       THEN /\ lastOp' = Op("undo", "", "", FALSE, FALSE, FALSE, FALSE)
            /\ ur' = IF ur.phase = "edited"
                     THEN [ur EXCEPT !.phase = "undone",
                                     !.text = transcript.segments[ur.seg].text,
                                     !.idx = historyIndex]
                     ELSE NoUr
            /\ UNCHANGED <<transcript, loading, error, editHistory, historyIndex,
                           server, requests, loadInFlight, debounce, editing,
                           calls, loads>>
       ELSE LET item == editHistory[historyIndex + 1]
            IN  /\ UpdateSegmentText(CurrentClosure, item.segmentId,
                                     item.previousText, TRUE, -1)
                /\ lastOp' = Op("undo", item.segmentId, item.previousText,
                                TRUE, TRUE, FALSE, FALSE)
                /\ ur' = IF ur.phase = "edited"
                         THEN [ur EXCEPT !.phase = "undone",
                                    !.text = transcript.segments[ur.seg].text,
                                    !.idx = historyIndex]
                         ELSE NoUr
                /\ UNCHANGED <<loading, error, server, loadInFlight, debounce,
                               editing, calls, loads>>

\* lines 181-189
Redo ==
    /\ UNCHANGED nonEditVars
    /\ UNCHANGED slots
    /\ TripRedo
    /\ UNCHANGED saveVars
    /\ replays > 0
    /\ replays' = replays - 1
    /\ IF historyIndex >= Len(editHistory) - 1
       THEN /\ lastOp' = Op("redo", "", "", FALSE, FALSE, FALSE, FALSE)
            /\ ur' = IF ur.phase = "undone"
                     THEN [ur EXCEPT !.phase = "redone"] ELSE NoUr
            /\ UNCHANGED <<transcript, loading, error, editHistory, historyIndex,
                           server, requests, loadInFlight, debounce, editing,
                           calls, loads>>
       ELSE LET item == editHistory[historyIndex + 2]
            IN  /\ UpdateSegmentText(CurrentClosure, item.segmentId,
                                     item.newText, TRUE, 1)
                /\ lastOp' = Op("redo", item.segmentId, item.newText,
                                TRUE, TRUE, FALSE, FALSE)
                /\ ur' = IF ur.phase = "undone"
                         THEN [ur EXCEPT !.phase = "redone"] ELSE NoUr
                /\ UNCHANGED <<loading, error, server, loadInFlight, debounce,
                               editing, calls, loads>>

\* updateSegment resolved (line 120): nothing more happens in the hook;
\* the backend now holds the text.
UpdateResolved(r) ==
    /\ UNCHANGED nonEditVars
    /\ UNCHANGED slots
    /\ UNCHANGED trip
    /\ SaveSettled(r, FALSE)
    /\ BagIn(r, requests)
    /\ server' = [server EXCEPT ![r.segmentId] =
                      [text |-> r.text, is_edited |-> TRUE]]
    /\ requests' = requests (-) SetToBag({r})
    /\ lastOp' = Op("ok", r.segmentId, r.text, FALSE, FALSE, FALSE, FALSE)
    /\ ur' = ur
    /\ UNCHANGED <<transcript, loading, error, editHistory, historyIndex,
                   loadInFlight, debounce, editing, calls, loads, replays>>

\* updateSegment rejected: the catch of lines 121-133
UpdateRejected(r) ==
    /\ UNCHANGED nonEditVars
    /\ UNCHANGED slots
    /\ UNCHANGED trip
    /\ SaveSettled(r, TRUE)
    /\ BagIn(r, requests)
    /\ transcript' = RevertText(transcript, r.segmentId, r.revert)
    /\ error' = SaveFailed
    /\ requests' = requests (-) SetToBag({r})
    /\ editing' = NotEditing
    /\ lastOp' = Op("fail", r.segmentId, r.text, FALSE, FALSE, FALSE, FALSE)
    /\ ur' = IF ur.phase = "edited" THEN ur ELSE NoUr
    /\ UNCHANGED <<loading, editHistory, historyIndex, server,
                   loadInFlight, debounce, calls, loads, replays>>

\* the timeout started at lines 326 fires: the indicator is taken down
SaveStatusExpires ==
    /\ UNCHANGED nonEditVars
    /\ expiries > 0
    /\ saveStatus' = NoStatus
    /\ expiries' = expiries - 1
    /\ lastOp' = Op("expire", "", "", FALSE, FALSE, FALSE, FALSE)
    /\ UNCHANGED <<transcript, loading, error, editHistory, historyIndex,
                   server, slots, requests, loadInFlight, debounce, editing,
                   calls, loads, replays, ur, trip>>

Next ==
    \/ LoadTranscript
    \/ LoadResolved
    \/ LoadRejected
    \/ \E segmentId \in Segs : HandleTextClick(segmentId)
    \/ \E segmentId \in Segs : HandleKeyDown(segmentId)
    \/ \E segmentId \in Segs, editedText \in Texts :
           HandleBlur(segmentId, editedText)
    \/ \E segmentId \in Segs, newText \in Texts :
           HandleChange(segmentId, newText)
    \/ \E segmentId \in Segs : DebounceFires(segmentId)
    \/ Undo
    \/ Redo
    \/ \E r \in BagToSet(requests) : UpdateResolved(r)
    \/ \E r \in BagToSet(requests) : UpdateRejected(r)

Spec == Init /\ [][Next]_vars

\* ---- a log at the capacity bound

\* The text segment s1 has after k alternating edits a -> b -> a -> ...
Alternating(k) == IF k % 2 = 0 THEN "a" ELSE "b"

\* The state after n recorded edits of segment s1, each accepted by the
\* backend, made through updateSegmentText from the current render.
InitCap ==
    \E n \in {MAX_HISTORY - 1, MAX_HISTORY} :
        /\ transcript = [loaded |-> TRUE,
               segments |-> [s \in Segs |->
                   IF s = "s1"
                   THEN [text |-> Alternating(n), is_edited |-> TRUE]
                   ELSE [text |-> LoadedText, is_edited |-> FALSE]]]
        /\ loading = FALSE
        /\ error = NoError
        /\ editHistory = [i \in 1..n |->
               [segmentId |-> "s1", previousText |-> Alternating(i - 1),
                newText |-> Alternating(i)]]
        /\ historyIndex = n - 1
        /\ server = transcript.segments
        /\ requests = EmptyBag
        /\ loadInFlight = FALSE
        /\ debounce = [s \in Segs |-> NoTimer]
        /\ editing = NotEditing
        /\ calls = MaxCapCalls
        /\ loads = 0
        /\ replays = MaxCapReplays
        /\ slots = MaxCapInflight
        /\ saveStatus = NoStatus
        /\ expiries = 0
        /\ lastOp = Op("init", "", "", FALSE, FALSE, FALSE, FALSE)
        /\ ur = NoUr
        /\ trip = NoTrip
        /\ NonEditIdle

\* the editor stays mounted: no load is started
NextCap ==
    \/ \E segmentId \in Segs : HandleTextClick(segmentId)
    \/ \E segmentId \in Segs : HandleKeyDown(segmentId)
    \/ \E segmentId \in Segs, editedText \in Texts :
           HandleBlur(segmentId, editedText)
    \/ \E segmentId \in Segs, newText \in Texts :
           HandleChange(segmentId, newText)
    \/ \E segmentId \in Segs : DebounceFires(segmentId)
    \/ Undo
    \/ Redo
    \/ \E r \in BagToSet(requests) : UpdateResolved(r)
    \/ \E r \in BagToSet(requests) : UpdateRejected(r)

SpecCap == InitCap /\ [][NextCap]_vars

\* ---- overlapping update requests

\* a segment text that no edit of the model types
EarlierText == "c"

\* A loaded transcript whose segments hold EarlierText, in memory and in
\* the backend; up to MaxRaceInflight requests may overlap.
InitRace ==
    /\ transcript = [loaded |-> TRUE,
           segments |-> [s \in Segs |->
               [text |-> EarlierText, is_edited |-> FALSE]]]
    /\ loading = FALSE
    /\ error = NoError
    /\ editHistory = <<>>
    /\ historyIndex = -1
    /\ server = transcript.segments
    /\ requests = EmptyBag
    /\ loadInFlight = FALSE
    /\ debounce = [s \in Segs |-> NoTimer]
    /\ editing = NotEditing
    /\ calls = MaxRaceCalls
    /\ loads = 0
    /\ replays = MaxRaceReplays
    /\ slots = MaxRaceInflight
    /\ saveStatus = NoStatus
    /\ expiries = 0
    /\ lastOp = Op("init", "", "", FALSE, FALSE, FALSE, FALSE)
    /\ ur = NoUr
    /\ trip = NoTrip
    /\ NonEditIdle

NextRace ==
    \/ \E segmentId \in Segs : HandleTextClick(segmentId)
    \/ \E segmentId \in Segs : HandleKeyDown(segmentId)
    \/ \E segmentId \in Segs, editedText \in Texts :
           HandleBlur(segmentId, editedText)
    \/ \E segmentId \in Segs, newText \in Texts :
           HandleChange(segmentId, newText)
    \/ \E segmentId \in Segs : DebounceFires(segmentId)
    \/ Undo
    \/ Redo
    \/ \E r \in BagToSet(requests) : UpdateResolved(r)
    \/ \E r \in BagToSet(requests) : UpdateRejected(r)
    \/ SaveStatusExpires

SpecRace == InitRace /\ [][NextRace]_vars

\* ---- recorded edits followed by undos and redos, every update accepted

\* A loaded transcript with an empty history.
InitTrip ==
    /\ transcript = [loaded |-> TRUE,
           segments |-> [s \in Segs |->
               [text |-> LoadedText, is_edited |-> FALSE]]]
    /\ loading = FALSE
    /\ error = NoError
    /\ editHistory = <<>>
    /\ historyIndex = -1
    /\ server = transcript.segments
    /\ requests = EmptyBag
    /\ loadInFlight = FALSE
    /\ debounce = [s \in Segs |-> NoTimer]
    /\ editing = NotEditing
    /\ calls = MaxTripCalls
    /\ loads = 0
    /\ replays = MaxTripReplays
    /\ slots = MaxTripInflight
    /\ saveStatus = NoStatus
    /\ expiries = 0
    /\ lastOp = Op("init", "", "", FALSE, FALSE, FALSE, FALSE)
    /\ ur = NoUr
    /\ trip = [NoTrip EXCEPT !.phase = "edits", !.first = TextsNow]
    /\ NonEditIdle

NextTrip ==
    \/ \E segmentId \in Segs : HandleTextClick(segmentId)
    \/ \E segmentId \in Segs : HandleKeyDown(segmentId)
    \/ \E segmentId \in Segs, editedText \in Texts :
           HandleBlur(segmentId, editedText)
    \/ \E segmentId \in Segs, newText \in Texts :
           HandleChange(segmentId, newText)
    \/ \E segmentId \in Segs : DebounceFires(segmentId)
    \/ Undo
    \/ Redo
    \/ \E r \in BagToSet(requests) : UpdateResolved(r)

SpecTrip == InitTrip /\ [][NextTrip]_vars

\* ---- renaming speakers

\* A rollback that always falls back to the generated default.
RevertNameToDefault(prev, r) ==
    [prev EXCEPT ![r.speaker_id] = DefaultName(r.speaker_id)]

\* lines 163-166: the reverting updater handed to setSpeakerNames; r.prior
\* is label.custom_name || `Speaker ${label.speaker_id}` of the label the
\* call found
RevertName(prev, r) == [prev EXCEPT ![r.speaker_id] = r.prior]

\* lines 136-160: renameSpeaker(labelId, name) up to its await, called by
\* handleRenameSave of the current render, followed by the effect of lines
\* 51-59, which runs because speaker_labels is a new array.  shown is a
\* history field: the name displayed for the speaker before the call.
RenameSpeaker(labelId, name) ==
    /\ UNCHANGED nonHookVars
    /\ UNCHANGED slots
    /\ UNCHANGED trip
    /\ UNCHANGED saveVars
    /\ renames > 0
    /\ EditorShown
    /\ renames' = renames - 1
    /\ lastRename' = RenameOp("rename", labelId, name)
    /\ IF ~transcript.loaded \/ labelId \notin Labels
       THEN UNCHANGED <<speakerLabels, speakerNames, renameRequests,
                        lastRenameOf>>
       ELSE LET label == speakerLabels[labelId]
                labels == [speakerLabels EXCEPT ![labelId].custom_name = name]
            IN  /\ speakerLabels' = labels
                /\ speakerNames' = BuildNames(labels)
                /\ lastRenameOf' = [lastRenameOf EXCEPT ![labelId] =
                       [seq |-> renames, name |-> name,
                        prior |-> NameOfLabel(label), failed |-> FALSE]]
                /\ renameRequests' = renameRequests (+) SetToBag({
                       [labelId |-> labelId, name |-> name, seq |-> renames,
                        speaker_id |-> label.speaker_id,
                        prior |-> NameOfLabel(label),
                        shown |-> getSpeakerName(label.speaker_id)]})
    /\ UNCHANGED <<transcript, loading, error, editHistory, historyIndex,
                   server, requests, loadInFlight, debounce, editing, calls,
                   loads, replays, lastOp, ur>>

\* updateSpeakerLabel resolved (line 160): nothing more happens
RenameResolved(r) ==
    /\ UNCHANGED nonHookVars
    /\ UNCHANGED slots
    /\ UNCHANGED trip
    /\ UNCHANGED saveVars
    /\ BagIn(r, renameRequests)
    /\ renameRequests' = renameRequests (-) SetToBag({r})
    /\ lastRename' = RenameOp("renameOk", r.labelId, r.name)
    /\ UNCHANGED <<transcript, loading, error, editHistory, historyIndex,
                   server, requests, loadInFlight, debounce, editing, calls,
                   loads, replays, lastOp, ur, speakerLabels, speakerNames,
                   renames, lastRenameOf>>

\* updateSpeakerLabel rejected: the catch of lines 161-168
RenameRejected(r) ==
    /\ UNCHANGED nonHookVars
    /\ UNCHANGED slots
    /\ UNCHANGED trip
    /\ UNCHANGED saveVars
    /\ BagIn(r, renameRequests)
    /\ renameRequests' = renameRequests (-) SetToBag({r})
    /\ speakerNames' = RevertName(speakerNames, r)
    /\ error' = RenameFailed
    /\ editing' = NotEditing
    /\ lastRename' = RenameOp("renameFail", r.labelId, r.name)
    /\ lastRenameOf' =
           IF lastRenameOf[r.labelId].seq = r.seq
           THEN [lastRenameOf EXCEPT ![r.labelId].failed = TRUE]
           ELSE lastRenameOf
    /\ UNCHANGED <<transcript, loading, editHistory, historyIndex, server,
                   requests, loadInFlight, debounce, calls, loads, replays,
                   lastOp, ur, speakerLabels, renames>>

\* A loaded transcript whose first label may carry a custom name, after
\* the effect of lines 51-59 has built the name map; no edit is under way.
InitRename ==
    /\ transcript = [loaded |-> TRUE,
           segments |-> [s \in Segs |->
               [text |-> LoadedText, is_edited |-> FALSE]]]
    /\ loading = FALSE
    /\ error = NoError
    /\ editHistory = <<>>
    /\ historyIndex = -1
    /\ server = transcript.segments
    /\ requests = EmptyBag
    /\ loadInFlight = FALSE
    /\ debounce = [s \in Segs |-> NoTimer]
    /\ editing = NotEditing
    /\ calls = 0
    /\ loads = 0
    /\ replays = 0
    /\ slots = 0
    /\ saveStatus = NoStatus
    /\ expiries = 0
    /\ lastOp = Op("init", "", "", FALSE, FALSE, FALSE, FALSE)
    /\ ur = NoUr
    /\ trip = NoTrip
    /\ \E c \in Names \cup {NoName} :
           speakerLabels = [l \in Labels |->
               [speaker_id |-> SpeakerOf(l),
                custom_name |-> IF l = "l1" THEN c ELSE NoName]]
    /\ speakerNames = BuildNames(speakerLabels)
    /\ renameRequests = EmptyBag
    /\ renames = MaxRenames
    /\ lastRename = RenameOp("init", "", "")
    /\ lastRenameOf = [l \in Labels |-> NoRename]
    /\ PollIdle
    /\ AudioIdle
    /\ DiffIdle
    /\ SegIdle

NextRename ==
    \/ \E labelId \in Labels \cup {"lx"}, name \in Names :
           RenameSpeaker(labelId, name)
    \/ \E r \in BagToSet(renameRequests) : RenameResolved(r)
    \/ \E r \in BagToSet(renameRequests) : RenameRejected(r)

SpecRename == InitRename /\ [][NextRename]_vars

\* ---- useAudioUpload: transcribe() and its status poll

TranscriptionFailed == "Transcription failed"
StatusCheckFailed == "Status check failed"
StartFailed == "Failed to start transcription"

PollOp(op, status) == [op |-> op, status |-> status]

\* status.progress as the backend reports it with each status
ProgressOf(status) == IF status = "completed" THEN 100 ELSE 50

\* An interval that clearInterval leaves running.
KeepInterval(interval) == interval

\* clearInterval(pollInterval)
ClearInterval(interval) == "cleared"

\* lines 53-64: transcribe() with a transcript id, up to its await
Transcribe ==
    /\ state = "uploaded"
    /\ state' = "transcribing"
    /\ progress' = 0
    /\ uploadError' = NoError
    /\ lastPoll' = PollOp("transcribe", "")
    /\ UNCHANGED <<pollInterval, clearCalls, statusRequests, job, ticks>>
    /\ UNCHANGED nonPollVars

\* startTranscription resolved: line 67 sets the interval
StartResolved ==
    /\ state = "transcribing" /\ pollInterval = "none"
    /\ pollInterval' = "active"
    /\ job' = "processing"
    /\ lastPoll' = PollOp("started", "")
    /\ UNCHANGED <<state, progress, uploadError, clearCalls, statusRequests,
                   ticks>>
    /\ UNCHANGED nonPollVars

\* startTranscription rejected: the catch of lines 90-93
StartRejected ==
    /\ state = "transcribing" /\ pollInterval = "none"
    /\ state' = "error"
    /\ uploadError' = StartFailed
    /\ lastPoll' = PollOp("startFail", "")
    /\ UNCHANGED <<progress, pollInterval, clearCalls, statusRequests, job,
                   ticks>>
    /\ UNCHANGED nonPollVars

\* The interval fires: the callback runs up to its await (line 69),
\* whether or not earlier status requests have been answered.
Tick ==
    /\ pollInterval = "active"
    /\ ticks > 0
    /\ ticks' = ticks - 1
    /\ statusRequests' = statusRequests (+) SetToBag({[res |-> "none"]})
    /\ lastPoll' = PollOp("tick", "")
    /\ UNCHANGED <<state, progress, uploadError, pollInterval, clearCalls,
                   job>>
    /\ UNCHANGED nonPollVars

\* The backend finishes the transcription, one way or the other.
JobEnds(status) ==
    /\ job = "processing"
    /\ job' = status
    /\ lastPoll' = PollOp("job", status)
    /\ UNCHANGED <<state, progress, uploadError, pollInterval, clearCalls,
                   statusRequests, ticks>>
    /\ UNCHANGED nonPollVars

\* The backend reads the status for one request.
BackendReads(r) ==
    /\ BagIn(r, statusRequests)
    /\ r.res = "none"
    /\ statusRequests' =
           (statusRequests (-) SetToBag({r})) (+) SetToBag({[res |-> job]})
    /\ lastPoll' = PollOp("read", job)
    /\ UNCHANGED <<state, progress, uploadError, pollInterval, clearCalls,
                   job, ticks>>
    /\ UNCHANGED nonPollVars

\* getTranscriptionStatus resolved: lines 71-81
StatusResolved(r) ==
    /\ BagIn(r, statusRequests)
    /\ r.res # "none"
    /\ statusRequests' = statusRequests (-) SetToBag({r})
    /\ lastPoll' = PollOp("status", r.res)
    /\ IF r.res = "completed"
       THEN /\ pollInterval' = ClearInterval(pollInterval)
            /\ clearCalls' = clearCalls + 1
            /\ state' = "completed"
            /\ progress' = 100
            /\ UNCHANGED uploadError
       ELSE IF r.res = "failed"
       THEN /\ pollInterval' = ClearInterval(pollInterval)
            /\ clearCalls' = clearCalls + 1
            /\ state' = "error"
            /\ uploadError' = TranscriptionFailed
            /\ progress' = ProgressOf(r.res)
       ELSE /\ progress' = ProgressOf(r.res)
            /\ UNCHANGED <<pollInterval, clearCalls, state, uploadError>>
    /\ UNCHANGED <<job, ticks>>
    /\ UNCHANGED nonPollVars

\* getTranscriptionStatus threw: the catch of lines 83-87
StatusThrew(r) ==
    /\ BagIn(r, statusRequests)
    /\ statusRequests' = statusRequests (-) SetToBag({r})
    /\ pollInterval' = ClearInterval(pollInterval)
    /\ clearCalls' = clearCalls + 1
    /\ state' = "error"
    /\ uploadError' = StatusCheckFailed
    /\ lastPoll' = PollOp("threw", "")
    /\ UNCHANGED <<progress, job, ticks>>
    /\ UNCHANGED nonPollVars

\* A file has been uploaded (lines 44-46) and nothing else has happened.
InitPoll ==
    /\ state = "uploaded"
    /\ progress = 100
    /\ uploadError = NoError
    /\ pollInterval = "none"
    /\ clearCalls = 0
    /\ statusRequests = EmptyBag
    /\ job = "pending"
    /\ ticks = MaxTicks
    /\ lastPoll = PollOp("init", "")
    /\ transcript = NullTranscript
    /\ loading = FALSE
    /\ error = NoError
    /\ editHistory = <<>>
    /\ historyIndex = -1
    /\ server = [s \in Segs |-> [text |-> LoadedText, is_edited |-> FALSE]]
    /\ requests = EmptyBag
    /\ loadInFlight = FALSE
    /\ debounce = [s \in Segs |-> NoTimer]
    /\ editing = NotEditing
    /\ calls = 0
    /\ loads = 0
    /\ replays = 0
    /\ slots = 0
    /\ saveStatus = NoStatus
    /\ expiries = 0
    /\ lastOp = Op("init", "", "", FALSE, FALSE, FALSE, FALSE)
    /\ ur = NoUr
    /\ trip = NoTrip
    /\ RenameIdle
    /\ AudioIdle
    /\ DiffIdle
    /\ SegIdle

NextPoll ==
    \/ Transcribe
    \/ StartResolved
    \/ StartRejected
    \/ Tick
    \/ \E status \in {"completed", "failed"} : JobEnds(status)
    \/ \E r \in BagToSet(statusRequests) : BackendReads(r)
    \/ \E r \in BagToSet(statusRequests) : StatusResolved(r)
    \/ \E r \in BagToSet(statusRequests) : StatusThrew(r)

SpecPoll == InitPoll /\ [][NextPoll]_vars

\* ---- TranscriptEditor: playback of the primary audio and override clips

\* segment s1 is followed by segment s2, which ends with the audio
StartTime(s) == IF s = "s1" THEN 0 ELSE 2
EndTime(s) == IF s = "s1" THEN 2 ELSE MaxTime

\* transcript.segments.find(s => s.start_time <= t && t < s.end_time)
SegmentAt(t) ==
    IF \E s \in Segs : StartTime(s) <= t /\ t < EndTime(s)
    THEN CHOOSE s \in Segs : StartTime(s) <= t /\ t < EndTime(s)
    ELSE NoSegment

\* localRegeneratedUrl(segment.id): only s1 has a regenerated clip
HasClip(s) == s = "s1"

\* the position play() starts from: an ended element starts over
PlayFrom(t) == IF t = MaxTime THEN 0 ELSE t

\* pause() has aborted a play() whose promise has not yet been rejected;
\* the rejection runs before any later event
AbortPending == ovPaused /\ ovPending

\* A switch-off that stops the override and leaves the primary where it
\* was paused.
ResumePositionKept(seg, pos) == mainTime

\* line 201: main.currentTime = seg.start_time + pos
ResumePosition(seg, pos) == Min(StartTime(seg) + pos, MaxTime)

\* The primary audio plays on by one step and fires timeupdate:
\* onMainTimeUpdate (lines 107-138)
MainTimeUpdate ==
    /\ ~AbortPending
    /\ ~mainPaused /\ mainTime < MaxTime
    /\ LET t == mainTime + 1
           segment == SegmentAt(t)
       IN  /\ mainTime' = t
           /\ IF playingOverride
              THEN /\ mainPaused' = (t = MaxTime)
                   /\ UNCHANGED <<ovPaused, ovTime, ovPending,
                                  playingOverride, overrideSegment,
                                  currentTime>>
              ELSE IF ~useRegenerated \/ segment = NoSegment
                          \/ ~HasClip(segment)
              THEN /\ mainPaused' = (t = MaxTime)
                   /\ currentTime' = t
                   /\ UNCHANGED <<ovPaused, ovTime, ovPending,
                                  playingOverride, overrideSegment>>
              ELSE /\ mainPaused' = TRUE
                   /\ playingOverride' = TRUE
                   /\ overrideSegment' = segment
                   /\ ovTime' = 0
                   /\ ovPaused' = FALSE
                   /\ ovPending' = TRUE
                   /\ UNCHANGED currentTime
    /\ lastAudio' = "mainTimeUpdate"
    /\ UNCHANGED useRegenerated
    /\ UNCHANGED nonAudioVars

\* the promise of override.play() resolves: the clip is playing
OverridePlayResolved ==
    /\ ovPending /\ ~ovPaused
    /\ ovPending' = FALSE
    /\ lastAudio' = "overridePlaying"
    /\ UNCHANGED <<mainPaused, mainTime, ovPaused, ovTime, playingOverride,
                   overrideSegment, useRegenerated, currentTime>>
    /\ UNCHANGED nonAudioVars

\* the promise of override.play() rejects (the clip cannot be played, or
\* pause() aborted it): the catch of lines 128-132
OverridePlayRejected ==
    /\ ovPending
    /\ ovPending' = FALSE
    /\ ovPaused' = TRUE
    /\ playingOverride' = FALSE
    /\ overrideSegment' = NoSegment
    /\ mainPaused' = FALSE
    /\ mainTime' = PlayFrom(mainTime)
    /\ lastAudio' = "overrideRejected"
    /\ UNCHANGED <<ovTime, useRegenerated, currentTime>>
    /\ UNCHANGED nonAudioVars

\* The clip plays on by one step and fires timeupdate:
\* onOverrideTimeUpdate (lines 141-144)
OverrideTimeUpdate ==
    /\ ~ovPaused /\ ~ovPending /\ ovTime < ClipLength
    /\ ovTime' = ovTime + 1
    /\ currentTime' = IF overrideSegment # NoSegment
                      THEN StartTime(overrideSegment) + ovTime + 1
                      ELSE currentTime
    /\ lastAudio' = "overrideTimeUpdate"
    /\ UNCHANGED <<mainPaused, mainTime, ovPaused, ovPending,
                   playingOverride, overrideSegment, useRegenerated>>
    /\ UNCHANGED nonAudioVars

\* The clip reaches its end and fires ended: onOverrideEnded (lines 146-155)
OverrideEnded ==
    /\ ~ovPaused /\ ~ovPending /\ ovTime = ClipLength
    /\ ovPaused' = TRUE
    /\ playingOverride' = FALSE
    /\ overrideSegment' = NoSegment
    /\ IF overrideSegment # NoSegment
       THEN /\ mainTime' = PlayFrom(EndTime(overrideSegment))
            /\ currentTime' = EndTime(overrideSegment)
            /\ mainPaused' = FALSE
       ELSE UNCHANGED <<mainTime, currentTime, mainPaused>>
    /\ lastAudio' = "overrideEnded"
    /\ UNCHANGED <<ovTime, ovPending, useRegenerated>>
    /\ UNCHANGED nonAudioVars

\* The override-mode checkbox changes (line 602), followed by the effect
\* of lines 189-206, which acts only when the mode is now off.
SetUseRegenerated ==
    /\ ~AbortPending
    /\ useRegenerated' = ~useRegenerated
    /\ IF useRegenerated /\ playingOverride
       THEN /\ ovPaused' = TRUE
            /\ ovTime' = 0
            /\ playingOverride' = FALSE
            /\ IF overrideSegment # NoSegment
               THEN /\ mainTime' =
                           PlayFrom(ResumePosition(overrideSegment, ovTime))
                    /\ currentTime' =
                           ResumePosition(overrideSegment, ovTime)
               ELSE /\ mainTime' = PlayFrom(mainTime)
                    /\ UNCHANGED currentTime
            /\ overrideSegment' = NoSegment
            /\ mainPaused' = FALSE
            /\ UNCHANGED ovPending
       ELSE UNCHANGED <<mainPaused, mainTime, ovPaused, ovTime, ovPending,
                        playingOverride, overrideSegment, currentTime>>
    /\ lastAudio' = IF useRegenerated /\ playingOverride
                    THEN "switchOffStopsOverride"
                    ELSE "setUseRegenerated"
    /\ UNCHANGED nonAudioVars

\* lines 214-219
TogglePlayPause ==
    /\ ~AbortPending
    /\ IF mainPaused
       THEN mainPaused' = FALSE /\ mainTime' = PlayFrom(mainTime)
       ELSE mainPaused' = TRUE /\ UNCHANGED mainTime
    /\ lastAudio' = "togglePlayPause"
    /\ UNCHANGED <<ovPaused, ovTime, ovPending, playingOverride,
                   overrideSegment, useRegenerated, currentTime>>
    /\ UNCHANGED nonAudioVars

\* lines 222-244: handleSeek(time)
HandleSeek(time) ==
    /\ ~AbortPending
    /\ IF playingOverride
       THEN /\ ovPaused' = TRUE
            /\ ovTime' = 0
            /\ playingOverride' = FALSE
            /\ overrideSegment' = NoSegment
       ELSE UNCHANGED <<ovPaused, ovTime, playingOverride, overrideSegment>>
    /\ mainTime' = time
    /\ mainPaused' = FALSE
    /\ lastAudio' = "handleSeek"
    /\ UNCHANGED <<ovPending, useRegenerated, currentTime>>
    /\ UNCHANGED nonAudioVars

\* The editor shows a loaded transcript; nothing plays yet.
InitAudio ==
    /\ AudioIdle
    /\ transcript = [loaded |-> TRUE,
           segments |-> [s \in Segs |->
               [text |-> LoadedText, is_edited |-> FALSE]]]
    /\ loading = FALSE
    /\ error = NoError
    /\ editHistory = <<>>
    /\ historyIndex = -1
    /\ server = transcript.segments
    /\ requests = EmptyBag
    /\ loadInFlight = FALSE
    /\ debounce = [s \in Segs |-> NoTimer]
    /\ editing = NotEditing
    /\ calls = 0
    /\ loads = 0
    /\ replays = 0
    /\ slots = 0
    /\ saveStatus = NoStatus
    /\ expiries = 0
    /\ lastOp = Op("init", "", "", FALSE, FALSE, FALSE, FALSE)
    /\ ur = NoUr
    /\ trip = NoTrip
    /\ RenameIdle
    /\ PollIdle
    /\ DiffIdle
    /\ SegIdle

NextAudio ==
    \/ MainTimeUpdate
    \/ OverridePlayResolved
    \/ OverridePlayRejected
    \/ OverrideTimeUpdate
    \/ OverrideEnded
    \/ SetUseRegenerated
    \/ TogglePlayPause
    \/ \E time \in 0..(MaxTime - 1) : HandleSeek(time)

SpecAudio == InitAudio /\ [][NextAudio]_vars

\* ---- TranscriptSegment: computeWordDiff

\* A string is the sequence of its characters; a word is a string too.
Chars == {"a", "b", " "}
IsSpace(c) == c = " "

\* three-word strings with a repeated word
RepeatedWords ==
    {<<"a", " ", "a", " ", "a">>, <<"a", " ", "b", " ", "a">>,
     <<"b", " ", "a", " ", "a">>}

Strings == UNION {[1..n -> Chars] : n \in 0..MaxStrLen} \cup RepeatedWords

TheQuickFox ==
    <<"t", "h", "e", " ", "q", "u", "i", "c", "k", " ", "f", "o", "x">>
TheQuickBrownFox ==
    <<"t", "h", "e", " ", "q", "u", "i", "c", "k", " ",
      "b", "r", "o", "w", "n", " ", "f", "o", "x">>

\* String.prototype.trim
RECURSIVE TrimStart(_)
TrimStart(s) ==
    IF s # <<>> /\ IsSpace(Head(s)) THEN TrimStart(Tail(s)) ELSE s

RECURSIVE TrimEnd(_)
TrimEnd(s) ==
    IF s # <<>> /\ IsSpace(s[Len(s)])
    THEN TrimEnd(SubSeq(s, 1, Len(s) - 1))
    ELSE s

Trim(s) == TrimEnd(TrimStart(s))

\* String.prototype.split(/\s+/): the pieces between the runs of
\* whitespace; cur is the piece being read, acc the pieces before it.
\* A string without whitespace, the empty string too, is one piece.
RECURSIVE SplitFrom(_, _, _)
SplitFrom(s, cur, acc) ==
    IF s = <<>> THEN Append(acc, cur)
    ELSE IF IsSpace(Head(s))
         THEN SplitFrom(TrimStart(s), <<>>, Append(acc, cur))
         ELSE SplitFrom(Tail(s), Append(cur, Head(s)), acc)

\* lines 220-221: s.trim().split(/\s+/)
SplitWords(s) == SplitFrom(Trim(s), <<>>, <<>>)

Part(type, text) == [type |-> type, text |-> text]

\* A mismatch is always shown as a change, without looking ahead.
DiffStepNoLookahead(ow, ew, i, j) ==
    IF i > Len(ow)
    THEN [parts |-> <<Part("added", ew[j])>>, i |-> i, j |-> j + 1]
    ELSE IF j > Len(ew)
    THEN [parts |-> <<Part("removed", ow[i])>>, i |-> i + 1, j |-> j]
    ELSE IF ow[i] = ew[j]
    THEN [parts |-> <<Part("unchanged", ow[i])>>, i |-> i + 1, j |-> j + 1]
    ELSE [parts |-> <<Part("removed", ow[i]), Part("added", ew[j])>>,
          i |-> i + 1, j |-> j + 1]

\* A changed word is shown as removed only; its replacement is skipped.
DiffStepDropsAdded(ow, ew, i, j) ==
    IF i > Len(ow)
    THEN [parts |-> <<Part("added", ew[j])>>, i |-> i, j |-> j + 1]
    ELSE IF j > Len(ew)
    THEN [parts |-> <<Part("removed", ow[i])>>, i |-> i + 1, j |-> j]
    ELSE IF ow[i] = ew[j]
    THEN [parts |-> <<Part("unchanged", ow[i])>>, i |-> i + 1, j |-> j + 1]
    ELSE IF i + 1 <= Len(ow) /\ ow[i + 1] = ew[j]
    THEN [parts |-> <<Part("removed", ow[i])>>, i |-> i + 1, j |-> j]
    ELSE IF j + 1 <= Len(ew) /\ ew[j + 1] = ow[i]
    THEN [parts |-> <<Part("added", ew[j])>>, i |-> i, j |-> j + 1]
    ELSE [parts |-> <<Part("removed", ow[i])>>, i |-> i + 1, j |-> j + 1]

\* One turn of the while loop of lines 227-261, with the cursors i and j
\* counted from 1: the parts pushed and the cursors afterwards.
DiffStep(ow, ew, i, j) ==
    IF i > Len(ow)
    THEN [parts |-> <<Part("added", ew[j])>>, i |-> i, j |-> j + 1]
    ELSE IF j > Len(ew)
    THEN [parts |-> <<Part("removed", ow[i])>>, i |-> i + 1, j |-> j]
    ELSE IF ow[i] = ew[j]
    THEN [parts |-> <<Part("unchanged", ow[i])>>, i |-> i + 1, j |-> j + 1]
    ELSE LET origNextMatchesEdited ==
                 i + 1 <= Len(ow) /\ ow[i + 1] = ew[j]
             editedNextMatchesOrig ==
                 j + 1 <= Len(ew) /\ ew[j + 1] = ow[i]
         IN  IF origNextMatchesEdited
             THEN [parts |-> <<Part("removed", ow[i])>>,
                   i |-> i + 1, j |-> j]
             ELSE IF editedNextMatchesOrig
             THEN [parts |-> <<Part("added", ew[j])>>,
                   i |-> i, j |-> j + 1]
             ELSE [parts |-> <<Part("removed", ow[i]),
                               Part("added", ew[j])>>,
                   i |-> i + 1, j |-> j + 1]

\* the while loop of lines 227-261
RECURSIVE DiffLoop(_, _, _, _, _)
DiffLoop(ow, ew, i, j, result) ==
    IF i <= Len(ow) \/ j <= Len(ew)
    THEN LET step == DiffStep(ow, ew, i, j)
         IN  DiffLoop(ow, ew, step.i, step.j, result \o step.parts)
    ELSE result

\* lines 219-264
computeWordDiff(originalString, editedString) ==
    DiffLoop(SplitWords(originalString), SplitWords(editedString),
             1, 1, <<>>)

\* computeWordDiff(original, edited) is called and returns
ComputeWordDiff ==
    /\ ~diffDone
    /\ diffParts' = computeWordDiff(original, edited)
    /\ diffDone' = TRUE
    /\ UNCHANGED <<original, edited>>
    /\ UNCHANGED nonDiffVars

\* Any two strings may be the arguments; the rest of the program is idle.
InitDiff ==
    /\ original \in Strings \cup {TheQuickFox}
    /\ edited \in Strings \cup {TheQuickBrownFox}
    /\ diffParts = <<>>
    /\ diffDone = FALSE
    /\ transcript = NullTranscript
    /\ loading = FALSE
    /\ error = NoError
    /\ editHistory = <<>>
    /\ historyIndex = -1
    /\ server = [s \in Segs |-> [text |-> LoadedText, is_edited |-> FALSE]]
    /\ requests = EmptyBag
    /\ loadInFlight = FALSE
    /\ debounce = [s \in Segs |-> NoTimer]
    /\ editing = NotEditing
    /\ calls = 0
    /\ loads = 0
    /\ replays = 0
    /\ slots = 0
    /\ saveStatus = NoStatus
    /\ expiries = 0
    /\ lastOp = Op("init", "", "", FALSE, FALSE, FALSE, FALSE)
    /\ ur = NoUr
    /\ trip = NoTrip
    /\ RenameIdle
    /\ PollIdle
    /\ AudioIdle
    /\ SegIdle

NextDiff == ComputeWordDiff

SpecDiff == InitDiff /\ [][NextDiff]_vars

\* ---- TranscriptSegment: one segment editor and its debounce timer

\* A handler that sets a new timeout without clearing the pending one.
ClearTimeoutMissing(pending, ref) == pending

\* clearTimeout(debounceRef.current)
ClearTimeout(pending, ref) == {t \in pending : t.key # ref}

\* onTextChange(newText), for the text of keystroke key: the parent's
\* updateSegmentText applies the text optimistically, the segment is
\* rendered with the new prop, and the effect of lines 293-295 copies a
\* changed prop into editedText.
OnTextChange(newText, key) ==
    /\ deliveries' = Append(deliveries, [key |-> key, text |-> newText])
    /\ textProp' = newText
    /\ textarea' = IF newText # textProp THEN newText ELSE textarea
    /\ editedKey' = IF newText # textProp THEN key ELSE editedKey

\* lines 306-312
handleTextClick ==
    /\ ~isEditing
    /\ isEditing' = TRUE
    /\ segOp' = "click"
    /\ UNCHANGED <<textProp, textarea, debounceRef, timers, keys, editedKey,
                   deliveries, discarded>>
    /\ UNCHANGED nonSegVars

\* lines 315-328: a keystroke leaves newText in the textarea
handleChange(newText) ==
    /\ isEditing
    /\ keys < MaxKeys
    /\ newText # textarea
    /\ keys' = keys + 1
    /\ textarea' = newText
    /\ editedKey' = keys + 1
    /\ timers' = ClearTimeout(timers, debounceRef)
                     \cup {[key |-> keys + 1, newText |-> newText,
                            text |-> textProp]}
    /\ debounceRef' = keys + 1
    /\ segOp' = "change"
    /\ UNCHANGED <<textProp, isEditing, deliveries, discarded>>
    /\ UNCHANGED nonSegVars

\* the timeout set at line 323 fires, 500 ms after its keystroke
TimerFires(t) ==
    /\ t \in timers
    /\ timers' = timers \ {t}
    /\ IF t.newText # t.text
       THEN OnTextChange(t.newText, t.key)
       ELSE UNCHANGED <<deliveries, textProp, textarea, editedKey>>
    /\ segOp' = "timer"
    /\ UNCHANGED <<isEditing, debounceRef, keys, discarded>>
    /\ UNCHANGED nonSegVars

\* lines 331-339
handleBlur ==
    /\ isEditing
    /\ isEditing' = FALSE
    /\ timers' = ClearTimeout(timers, debounceRef)
    /\ IF textarea # textProp
       THEN OnTextChange(textarea, editedKey)
       ELSE UNCHANGED <<deliveries, textProp, textarea, editedKey>>
    /\ segOp' = "blur"
    /\ UNCHANGED <<debounceRef, keys, discarded>>
    /\ UNCHANGED nonSegVars

\* lines 342-347, with Escape: the keystrokes not yet delivered are
\* discarded
handleKeyDown ==
    /\ isEditing
    /\ textarea' = textProp
    /\ isEditing' = FALSE
    /\ editedKey' = 0
    /\ discarded' = discarded \cup
           {k \in 1..keys :
               \A n \in 1..Len(deliveries) : deliveries[n].key # k}
    /\ segOp' = "escape"
    /\ UNCHANGED <<textProp, debounceRef, timers, keys, deliveries>>
    /\ UNCHANGED nonSegVars

\* The parent renders the segment with another text (an undo, a redo, a
\* rollback); the effect of lines 293-295 copies it into editedText.
TextPropChanges(newProp) ==
    /\ newProp # textProp
    /\ textProp' = newProp
    /\ textarea' = newProp
    /\ editedKey' = 0
    /\ segOp' = "prop"
    /\ UNCHANGED <<isEditing, debounceRef, timers, keys, deliveries,
                   discarded>>
    /\ UNCHANGED nonSegVars

\* One mounted segment; the rest of the program is idle.
InitSegment ==
    /\ SegIdle
    /\ transcript = NullTranscript
    /\ loading = FALSE
    /\ error = NoError
    /\ editHistory = <<>>
    /\ historyIndex = -1
    /\ server = [s \in Segs |-> [text |-> LoadedText, is_edited |-> FALSE]]
    /\ requests = EmptyBag
    /\ loadInFlight = FALSE
    /\ debounce = [s \in Segs |-> NoTimer]
    /\ editing = NotEditing
    /\ calls = 0
    /\ loads = 0
    /\ replays = 0
    /\ slots = 0
    /\ saveStatus = NoStatus
    /\ expiries = 0
    /\ lastOp = Op("init", "", "", FALSE, FALSE, FALSE, FALSE)
    /\ ur = NoUr
    /\ trip = NoTrip
    /\ RenameIdle
    /\ PollIdle
    /\ AudioIdle
    /\ DiffIdle

NextSegment ==
    \/ handleTextClick
    \/ \E newText \in Texts : handleChange(newText)
    \/ \E t \in timers : TimerFires(t)
    \/ handleBlur
    \/ handleKeyDown
    \/ \E newProp \in Texts : TextPropChanges(newProp)

SpecSegment == InitSegment /\ [][NextSegment]_vars

\* ---- the claims

Text(s) == transcript.segments[s].text

\* The step just taken called updateSegmentText outside a replay.
IsUpdateCall == lastOp'.op \in {"blur", "fire"} /\ lastOp'.called

\* The closure such a call ran from.
CallClosure ==
    IF lastOp'.op = "fire" THEN debounce[lastOp'.seg].cl ELSE CurrentClosure

\* C1: a recorded edit (an updateSegmentText call outside replay that
\* changes a segment's text) replaces the log by its entries 0..cursor
\* followed by the new entry {segmentId, previousText = the text before the
\* call, newText}, with the cursor on that last entry, so that canRedo is
\* false right after it (the oldest entry giving way at the capacity bound).
C1_RecordedEditTruncates ==
    [][(/\ IsUpdateCall
        /\ lastOp'.seg \in Segs
        /\ transcript'.segments[lastOp'.seg].text # Text(lastOp'.seg))
       => LET item == [segmentId |-> lastOp'.seg,
                       previousText |-> Text(lastOp'.seg),
                       newText |-> lastOp'.text]
              kept == Append(SubSeq(editHistory, 1, historyIndex + 1), item)
          IN  /\ editHistory' =
                    IF Len(kept) > MAX_HISTORY THEN Tail(kept) ELSE kept
              /\ historyIndex' = Len(editHistory') - 1
              /\ ~canRedo']_vars

\* C2: undo() and redo() never create, remove or modify a history entry;
\* besides the cursor they touch only the text of the entry's segment, and
\* the entry an undo steps back over is the one redo applies next.
C2_ReplayKeepsLog ==
    [][lastOp'.op \in {"undo", "redo"}
       => /\ editHistory' = editHistory
          /\ error' = error /\ loading' = loading
          /\ \A s \in Segs \ {lastOp'.seg} :
                 transcript'.segments[s] = transcript.segments[s]
          /\ (lastOp'.op = "undo" /\ lastOp'.eff)
                 => /\ canRedo'
                    /\ editHistory'[historyIndex' + 2] =
                           editHistory[historyIndex + 1]]_vars

\* An undo has applied previousText to a segment and a redo newText.
C2_Witness ==
    /\ lastOp.op = "redo" /\ lastOp.eff
    /\ Len(editHistory) > 0
    /\ Text(lastOp.seg) = editHistory[historyIndex + 1].newText

\* C3: in every reachable state the edit history holds at most MAX_HISTORY
\* (50) entries.
C3_HistoryBounded == Len(editHistory) <= MAX_HISTORY

\* A recorded edit has pushed onto a full log: 50 entries remain and the
\* oldest of the initial log is gone.
C3_Witness ==
    /\ lastOp.rec
    /\ Len(editHistory) = MAX_HISTORY
    /\ editHistory[1].previousText = Alternating(1)
    /\ editHistory[MAX_HISTORY].newText = lastOp.text

\* C4: when a recorded edit would make the log 51 entries long, exactly
\* the oldest entry is evicted, the others keep their order with the new
\* entry last, and the cursor ends at index 49 on the new entry (from where
\* at most 50 undos, one per position 49..0, can take effect).
C4_EvictsOldest ==
    [][(/\ IsUpdateCall
        /\ lastOp'.rec
        /\ Len(Slice(editHistory, CallClosure.historyIndex + 1))
               = MAX_HISTORY)
       => LET item == HistoryItem(CallClosure, lastOp'.seg, lastOp'.text)
          IN  /\ editHistory' = Append(Tail(editHistory), item)
              /\ historyIndex' = MAX_HISTORY - 1
              /\ editHistory'[historyIndex' + 1] = item]_vars

\* C5: undo() with the cursor before the first entry changes nothing (no
\* text, no request, cursor stays); otherwise it sets the text of the
\* segment named by the entry at the cursor to that entry's previousText
\* and moves the cursor back by exactly one.
C5_Undo ==
    [][lastOp'.op = "undo"
       => IF historyIndex < 0
          THEN UNCHANGED <<transcript, requests, historyIndex>>
          ELSE /\ historyIndex + 1 \in 1..Len(editHistory)
               /\ LET item == editHistory[historyIndex + 1]
                  IN  transcript'.segments[item.segmentId].text
                          = item.previousText
               /\ historyIndex' = historyIndex - 1]_vars

\* C6: redo() with the cursor on the last entry (or an empty log) changes
\* nothing; otherwise it sets the text of the segment named by the entry
\* one past the cursor to that entry's newText and advances the cursor by
\* exactly one.
C6_Redo ==
    [][lastOp'.op = "redo"
       => IF historyIndex = Len(editHistory) - 1
          THEN UNCHANGED <<transcript, requests, historyIndex>>
          ELSE /\ historyIndex + 2 \in 1..Len(editHistory)
               /\ LET item == editHistory[historyIndex + 2]
                  IN  transcript'.segments[item.segmentId].text
                          = item.newText
               /\ historyIndex' = historyIndex + 1]_vars

\* C7: after a recorded edit of a segment, undo() followed immediately by
\* redo(), the backend calls of both replays pending or succeeded, leaves
\* that segment's text equal to its value before the undo and the cursor
\* on the same entry.
C7_UndoRedoRoundTrip ==
    ur.phase = "redone"
        => /\ Text(ur.seg) = ur.text
           /\ historyIndex = ur.idx

\* C8: canUndo is (cursor >= 0) and canRedo is (cursor < length - 1), and
\* they are exact: canUndo holds iff an entry exists at the cursor, canRedo
\* iff an entry exists one past the cursor.
C8_FlagsExact ==
    /\ canUndo <=> historyIndex >= 0
    /\ canRedo <=> historyIndex < Len(editHistory) - 1
    /\ canUndo <=> historyIndex + 1 \in 1..Len(editHistory)
    /\ canRedo <=> historyIndex + 2 \in 1..Len(editHistory)

\* C9: updateSegmentText(segmentId, text) with an unknown segmentId, or
\* with text equal to the segment's current text, is a complete no-op: no
\* history entry, cursor, texts, is_edited flags and error unchanged, no
\* backend request.
C9_NoOpCall ==
    [][(/\ IsUpdateCall
        /\ \/ lastOp'.seg \notin Segs
           \/ lastOp'.text = Text(lastOp'.seg))
       => UNCHANGED <<editHistory, historyIndex, transcript, error,
                      requests>>]_vars

\* C10: when the backend rejects an updateSegmentText request, the
\* segment's text is set back to the text it had when the call was made,
\* its is_edited flag stays true, the error state holds a message, and the
\* other segments are unchanged.
C10_RejectReverts ==
    [][lastOp'.op = "fail"
       => \E r \in BagToSet(requests) :
              /\ requests' = requests (-) SetToBag({r})
              /\ transcript'.segments[r.segmentId].text = r.textAtCall
              /\ transcript'.segments[r.segmentId].is_edited
              /\ error' # NoError
              /\ \A s \in Segs \ {r.segmentId} :
                     transcript'.segments[s] = transcript.segments[s]]_vars

C12_EditorStaysInteractive ==
    lastOp.op = "fail"
        => /\ EditorShown
           /\ Text(lastOp.seg) # lastOp.text

\* C13: renameSpeaker(labelId, name) with an id no label has changes
\* nothing and sends no request; otherwise the speaker's displayed name
\* becomes name at once and one update request is issued; if that request
\* fails the displayed name returns to the label's prior custom name, or to
\* the default 'Speaker <speaker_id>' when it had none (the name shown
\* before the call), and the error state is set.
C13_RenameOptimisticRollback ==
    [][/\ (lastRename'.op = "rename" /\ lastRename'.labelId \notin Labels)
           => UNCHANGED <<speakerLabels, speakerNames, renameRequests,
                          error, transcript>>
       /\ (lastRename'.op = "rename" /\ lastRename'.labelId \in Labels)
           => /\ NameShown(speakerNames', SpeakerOf(lastRename'.labelId)) =
                     lastRename'.name
              /\ BagCardinality(renameRequests') =
                     BagCardinality(renameRequests) + 1
              /\ \E r \in BagToSet(renameRequests') :
                     /\ r.labelId = lastRename'.labelId
                     /\ r.name = lastRename'.name
                     /\ CopiesIn(r, renameRequests') =
                            CopiesIn(r, renameRequests) + 1
       /\ lastRename'.op = "renameFail"
           => \E r \in BagToSet(renameRequests) :
                  /\ renameRequests' = renameRequests (-) SetToBag({r})
                  /\ r.labelId = lastRename'.labelId
                  /\ NameShown(speakerNames', r.speaker_id) = r.shown
                  /\ r.shown = r.prior
                  /\ r.prior \in Names \cup {DefaultName(r.speaker_id)}
                  /\ error' # NoError]_vars

\* A rename of a label that had a custom name was rejected and the name
\* shown is that custom name again.
C13_Witness ==
    /\ lastRename.op = "renameFail"
    /\ getSpeakerName(SpeakerOf(lastRename.labelId)) \in Names
    /\ getSpeakerName(SpeakerOf(lastRename.labelId)) # lastRename.name
    /\ error = RenameFailed

\* C14: once the poll has handled a response with status 'failed' or
\* 'completed', or a status request that threw, no further status request
\* is issued; on 'failed' or a thrown request the upload state becomes
\* 'error' with the failure's message, on 'completed' it becomes
\* 'completed' with progress 100.
C14_PollStopsAtTerminal ==
    [][/\ clearCalls > 0
           => /\ ticks' = ticks
              /\ BagCardinality(statusRequests') <=
                     BagCardinality(statusRequests)
       /\ (lastPoll'.op = "status" /\ lastPoll'.status = "completed")
           => /\ state' = "completed" /\ progress' = 100
              /\ pollInterval' = "cleared"
       /\ (lastPoll'.op = "status" /\ lastPoll'.status = "failed")
           => /\ state' = "error" /\ uploadError' = TranscriptionFailed
              /\ pollInterval' = "cleared"
       /\ lastPoll'.op = "threw"
           => /\ state' = "error" /\ uploadError' = StatusCheckFailed
              /\ pollInterval' = "cleared"]_vars

\* The poll has stopped at a terminal response although ticks remained.
C14_Witness ==
    /\ clearCalls > 0
    /\ ticks > 0
    /\ pollInterval = "cleared"
    /\ lastPoll.op = "status" /\ lastPoll.status = "failed"
    /\ state = "error"

\* C15: for a transcribe() run the poll interval is cancelled exactly
\* once, at the first terminal status or request error, and never a second
\* time, also when several status requests are in flight at once.
C15_CancelledOnce == clearCalls <= 1

\* C16: every effective segment-text mutation follows idle ->
\* optimistic-applied -> committed or rolled-back.  A request enters the
\* bag only with its text applied in memory; it leaves exactly once, either
\* by an accepted response, which changes nothing else in memory, or by a
\* rejected one, which writes the call's pre-mutation text back and sets
\* the error; every response makes its mutation leave.
C16_MutationLifecycle ==
    [][/\ requests' # requests
           => \/ /\ lastOp'.op \in {"blur", "fire", "undo", "redo"}
                 /\ \E r \in BagToSet(requests') :
                        /\ requests' = requests (+) SetToBag({r})
                        /\ transcript'.segments[r.segmentId] =
                               [text |-> r.text, is_edited |-> TRUE]
              \/ /\ lastOp'.op = "ok"
                 /\ \E r \in BagToSet(requests) :
                        requests' = requests (-) SetToBag({r})
                 /\ UNCHANGED <<transcript, editHistory, historyIndex,
                                error, loading>>
              \/ /\ lastOp'.op = "fail"
                 /\ \E r \in BagToSet(requests) :
                        /\ requests' = requests (-) SetToBag({r})
                        /\ transcript'.segments[r.segmentId].text = r.revert
                 /\ error' # NoError
       /\ lastOp'.op \in {"ok", "fail"}
           => BagCardinality(requests') = BagCardinality(requests) - 1]_vars

\* A mutation has been committed: its request was accepted, none is left
\* in flight, and memory and backend both hold its text.
C16_Witness ==
    /\ lastOp.op = "ok"
    /\ requests = EmptyBag
    /\ Text(lastOp.seg) = lastOp.text
    /\ server[lastOp.seg].text = lastOp.text
    /\ error = NoError

\* C17: when override mode is switched off while an override clip is
\* playing, the override is stopped (paused, position reset, flag and
\* override segment cleared) and the primary source resumes playing at
\* segment.start_time + elapsed override playback time; if no override is
\* playing, switching it off changes neither source.
C17_SwitchOffResumesPrimary ==
    [][(useRegenerated /\ ~useRegenerated')
       => IF ~ovPaused
          THEN /\ overrideSegment # NoSegment
               /\ ovPaused' /\ ovTime' = 0
               /\ ~playingOverride' /\ overrideSegment' = NoSegment
               /\ ~mainPaused'
               /\ mainTime' = StartTime(overrideSegment) + ovTime
          ELSE UNCHANGED <<mainPaused, mainTime, ovPaused, ovTime>>]_vars

\* Override mode was switched off in the middle of the clip: the primary
\* audio plays from the middle of the segment and the clip is stopped.
C17_Witness ==
    /\ lastAudio = "switchOffStopsOverride"
    /\ ~useRegenerated
    /\ ~mainPaused /\ mainTime = 1
    /\ ovPaused /\ ovTime = 0
    /\ currentTime = 1

\* The word sequence of a string, read off the string itself: its maximal
\* runs of characters that are not whitespace, in order. A string without
\* any word splits into the one empty string, as String.split returns.
WordStarts(s) ==
    {k \in 1..Len(s) : ~IsSpace(s[k]) /\ (k = 1 \/ IsSpace(s[k - 1]))}

WordEnd(s, k) ==
    CHOOSE e \in k..Len(s) :
        /\ \A m \in k..e : ~IsSpace(s[m])
        /\ e = Len(s) \/ IsSpace(s[e + 1])

NthStart(s, n) ==
    CHOOSE k \in WordStarts(s) :
        Cardinality({m \in WordStarts(s) : m <= k}) = n

WordsOf(s) ==
    [n \in 1..Cardinality(WordStarts(s)) |->
        SubSeq(s, NthStart(s, n), WordEnd(s, NthStart(s, n)))]

WordSequence(s) == IF WordsOf(s) = <<>> THEN << <<>> >> ELSE WordsOf(s)

\* the texts of the parts of a diff whose tag is one of types, in order
IsTagged(types, p) == p.type \in types
TextsTagged(parts, types) ==
    LET chosen == SelectSeq(parts, LAMBDA p : IsTagged(types, p))
    IN  [n \in 1..Len(chosen) |-> chosen[n].text]

\* seq without its k-th element
RemoveAt(seq, k) == SubSeq(seq, 1, k - 1) \o SubSeq(seq, k + 1, Len(seq))

\* C18: computeWordDiff("the quick fox", "the quick brown fox") returns
\* exactly unchanged(the), unchanged(quick), added(brown), unchanged(fox);
\* and whenever edited is original with one word inserted that does not
\* occur in original, the result tags that word added and every original
\* word unchanged, in order.
C18_InsertedWordAdded ==
    diffDone =>
        /\ (original = TheQuickFox /\ edited = TheQuickBrownFox)
               => diffParts =
                     <<Part("unchanged", <<"t", "h", "e">>),
                       Part("unchanged", <<"q", "u", "i", "c", "k">>),
                       Part("added", <<"b", "r", "o", "w", "n">>),
                       Part("unchanged", <<"f", "o", "x">>)>>
        /\ LET ow == WordSequence(original)
               ew == WordSequence(edited)
           IN  \A k \in 1..Len(ew) :
                   (/\ Len(ew) = Len(ow) + 1
                    /\ RemoveAt(ew, k) = ow
                    /\ \A m \in 1..Len(ow) : ow[m] # ew[k])
                   => diffParts =
                         [n \in 1..Len(ew) |->
                             Part(IF n = k THEN "added" ELSE "unchanged",
                                  ew[n])]

\* The diff of "the quick fox" and "the quick brown fox" has been computed
\* and shows brown as the added word.
C18_Witness ==
    /\ diffDone
    /\ original = TheQuickFox
    /\ edited = TheQuickBrownFox
    /\ Len(diffParts) = 4
    /\ diffParts[3] = Part("added", <<"b", "r", "o", "w", "n">>)

\* C19: for all original and edited strings, the parts of computeWordDiff
\* tagged unchanged or removed, in order, are exactly the whitespace-split
\* word sequence of original, and the parts tagged unchanged or added, in
\* order, are exactly the word sequence of edited.
C19_SidesReconstructed ==
    diffDone =>
        /\ TextsTagged(diffParts, {"unchanged", "removed"})
               = WordSequence(original)
        /\ TextsTagged(diffParts, {"unchanged", "added"})
               = WordSequence(edited)

\* A diff with a removed, an added and an unchanged part has been computed
\* from strings with surrounding and repeated whitespace.
C19_Witness ==
    /\ diffDone
    /\ {diffParts[n].type : n \in 1..Len(diffParts)}
           = {"unchanged", "removed", "added"}
    /\ original # Trim(original)
    /\ Len(WordSequence(edited)) >= 2

\* C20: in every reachable state the history cursor is a valid position,
\* -1 <= cursor <= length - 1, where length is the current number of
\* history entries; after every recorded edit, undo, redo and load.
C20_CursorValid ==
    /\ -1 <= historyIndex
    /\ historyIndex <= Len(editHistory) - 1

\* C21: when two updateSegmentText requests for the same segment are in
\* flight at once, the segment's final in-memory text is decided solely by
\* the response that arrives last: that request's text if it succeeded,
\* its pre-mutation text if it failed, whatever the earlier response was.
\* The step is the arrival of the last response for r's segment, right
\* after the response to another request for the same segment arrived.
C21_LastResponseDecides ==
    [][\A r \in BagToSet(requests) :
          (/\ lastOp.op \in {"ok", "fail"}
           /\ lastOp.seg = r.segmentId
           /\ requests' = requests (-) SetToBag({r})
           /\ \A q \in BagToSet(requests') : q.segmentId # r.segmentId
           /\ lastOp'.op \in {"ok", "fail"})
          => Text(r.segmentId)' =
                 IF lastOp'.op = "ok" THEN r.text ELSE r.textAtCall]_vars

\* C22: whenever no segment update request is in flight, each segment's
\* in-memory text equals the text the backend holds for it.
C22_MemoryMatchesBackend ==
    (transcript.loaded /\ requests = EmptyBag)
        => \A s \in Segs : transcript.segments[s].text = server[s].text

\* C23: a save delivered by a debounce timer records against the state
\* current when it fires, also when an undo, a redo or another recorded
\* edit came after the timer was armed: if the typed text differs from the
\* segment's current text, the log is truncated at the current cursor, the
\* new entry stores the segment's current text as previousText, and the
\* cursor is left on the new last entry.
C23_TimerRecordsCurrentState ==
    [][(/\ lastOp'.op = "fire"
        /\ lastOp'.called
        /\ Text(lastOp'.seg) # lastOp'.text)
       => LET item == [segmentId |-> lastOp'.seg,
                       previousText |-> Text(lastOp'.seg),
                       newText |-> lastOp'.text]
              kept == Append(SubSeq(editHistory, 1, historyIndex + 1), item)
          IN  /\ Len(editHistory') > 0
              /\ editHistory'[Len(editHistory')] = item
              /\ editHistory' =
                    IF Len(kept) > MAX_HISTORY THEN Tail(kept) ELSE kept
              /\ historyIndex' = Len(editHistory') - 1]_vars

\* C24: for each handleSegmentTextChange call the save indicator is
\* 'saving' from the call until the backend responds, and then becomes
\* 'saved' only if the backend update succeeded and 'error' if it failed.
\* Checked for a call that is alone in flight: the call sets 'saving',
\* nothing but its response changes the indicator, and the response sets
\* it by its outcome.
C24_IndicatorFollowsOutcome ==
    [][/\ (IsUpdateCall /\ lastOp'.eff) => saveStatus' = "saving"
       /\ \A r \in BagToSet(requests) :
             (r.indicator /\ BagCardinality(requests) = 1)
             => IF requests' = EmptyBag
                THEN saveStatus' =
                         IF lastOp'.op = "ok" THEN "saved" ELSE "error"
                ELSE requests' = requests => saveStatus' = "saving"]_vars

C26_EscapeDiscards ==
    \A n \in 1..Len(deliveries) : deliveries[n].key \notin discarded

\* C27: after a failed rename of a label, as long as that label is not
\* renamed again, the name shown for its speaker is the prior name, and
\* the label's speaker_labels entry does not keep the rejected custom_name:
\* the name map rebuilt from the labels shows the prior name too.
C27_RejectedNameNotKept ==
    \A l \in Labels :
        lastRenameOf[l].failed
            => /\ getSpeakerName(SpeakerOf(l)) = lastRenameOf[l].prior
               /\ NameShown(BuildNames(speakerLabels), SpeakerOf(l)) =
                      lastRenameOf[l].prior

\* C28: once a status response or a request error has moved the upload
\* state to 'completed' or 'error', a status response or request error
\* arriving later changes neither state nor progress nor error.
C28_TerminalStateFinal ==
    [][(/\ clearCalls > 0
        /\ state \in {"completed", "error"}
        /\ lastPoll'.op \in {"status", "threw"})
           => UNCHANGED <<state, progress, uploadError>>]_vars

\* C29: the primary audio source and an override clip never play at the
\* same time: whenever the override clip is playing, the primary source
\* is paused.
C29_NeverBothPlaying == ~ovPaused => mainPaused

\* C30: with every backend update succeeding, after n recorded edits that
\* started from an empty history, n consecutive undo() calls restore every
\* segment's text to its value before the first edit, and n consecutive
\* redo() calls then restore every segment's text to its value after the
\* last edit.
C30_UndoAllRedoAll ==
    /\ (trip.phase = "undos" /\ trip.k = trip.n) => TextsNow = trip.first
    /\ (trip.phase = "redos" /\ trip.k = trip.n) => TextsNow = trip.last

====
